---- MODULE Spec2Model ----
(***************************************************************************)
(* Whisper Walls: the ExploreScreen feed query (the getFilteredWhispers    *)
(* memo), its pagination and the load-more timer.                          *)
(*                                                                         *)
(* Strings are sequences of one-character strings, so that toLowerCase,    *)
(* trim and includes are computed, not assumed.  A field of a whisper      *)
(* record is a tagged value [k, v]: k is the JavaScript kind of the value  *)
(* the store put there ("undefined" when the field is absent).  Times are  *)
(* milliseconds, as Date.now() gives them.                                 *)
(***************************************************************************)
EXTENDS Integers, Sequences, FiniteSets

\* ------------------------------------------------------------------ bounds
\* Longest collection whose records are drawn freely from WhisperPool.
MaxWhispers == 3
\* Longest of the long, regular collections that make pagination happen.
MaxFiller == 21
\* How often the clock advances by TickMs.
MaxTicks == 1

\* --------------------------------------------------------------- constants
ITEMS_PER_PAGE == 10
MS_PER_HOUR == 1000 * 60 * 60
TRENDING_MAX_HOURS == 24
\* The clock's first reading and its step (half an hour).
T0 == 100 * MS_PER_HOUR
TickMs == MS_PER_HOUR \div 2

\* ------------------------------------------------------ JavaScript values
Undefined == [k |-> "undefined", v |-> 0]
Num(n) == [k |-> "number", v |-> n]
\* A string no Date can be parsed from: new Date(s) is an Invalid Date (NaN).
BadDateString == [k |-> "string", v |-> 0]
\* A value whose conversion to a number throws a TypeError (a Symbol, a BigInt).
SymbolValue == [k |-> "symbol", v |-> 0]
NoString == [k |-> "undefined", s |-> <<>>]
Str(s) == [k |-> "string", s |-> s]

\* x || 0 on a likes or distance field: undefined, NaN and 0 give 0.
OrZero(x) == IF x.k = "number" THEN x.v ELSE 0
\* JavaScript truthiness of a field value, as a.timestamp || Date.now() tests it.
Truthy(x) == CASE x.k = "undefined" -> FALSE
               [] x.k = "number" -> x.v # 0
               [] OTHER -> TRUE

Min(a, b) == IF a <= b THEN a ELSE b
Max(a, b) == IF a >= b THEN a ELSE b
Sign(n) == IF n < 0 THEN -1 ELSE IF n > 0 THEN 1 ELSE 0

\* ------------------------------------------------------------------ strings
LowerChar(c) == CASE c = "A" -> "a"
                  [] c = "B" -> "b"
                  [] c = "C" -> "c"
                  [] OTHER -> c
ToLowerCase(s) == [i \in 1..Len(s) |-> LowerChar(s[i])]
IsSpace(c) == c = " "
\* An emptiness test that does not trim.
IsEmptyUntrimmed(s) == s = <<>>
\* s.trim() is the empty string exactly when every character of s is white space.
TrimIsEmpty(s) == \A i \in 1..Len(s) : IsSpace(s[i])
\* text.includes(q): q occurs in text as a contiguous substring.
Includes(text, q) ==
    \E i \in 0..(Len(text) - Len(q)) :
        \A j \in 1..Len(q) : text[i + j] = q[j]

\* ---------------------------------------------------------------- arrays
\* The elements of an array, as a set.
Range(arr) == {arr[i] : i \in 1..Len(arr)}
\* Every reordering of arr.
Perms(arr) ==
    LET n == Len(arr)
        bij == {f \in [1..n -> 1..n] : \A i, j \in 1..n : f[i] = f[j] => i = j}
    IN {[i \in 1..n |-> arr[f[i]]] : f \in bij}
\* arr.slice(start, end), start and end counted from 0, end exclusive and clamped.
Slice(arr, start, end) == SubSeq(arr, start + 1, Min(Len(arr), end))

\* The three arrays a query touches: src is the content of the caller's
\* whisper array, cur the content of the array the local variable `filtered`
\* refers to, shared whether the two are one and the same array object.
\* Mutant of SpreadCopy: let filtered = whispers, the caller's array itself.
SpreadAlias(ws) == [src |-> ws, cur |-> ws, shared |-> TRUE]
\* let filtered = [...whispers]: a fresh array with the same elements.
SpreadCopy(ws) == [src |-> ws, cur |-> ws, shared |-> FALSE]
\* filtered = filtered.filter(...): filter returns a new array.
FilterInto(fr, arr) == [src |-> fr.src, cur |-> arr, shared |-> FALSE]
\* filtered.sort(...): sorts the array object in place and returns it.
SortInPlace(fr, arr) ==
    [src |-> IF fr.shared THEN arr ELSE fr.src, cur |-> arr, shared |-> fr.shared]

\* ------------------------------------------------------------ search filter
\* A match that lower-cases the query only, not the whisper's text and mood.
SearchMatchesCaseSensitive(w, query) ==
    \/ Includes(w.text, query)
    \/ w.mood.k = "string" /\ Includes(w.mood.s, query)
\* whisper.text.toLowerCase().includes(query) ||
\* whisper.mood.toLowerCase().includes(query)
SearchMatches(w, query) ==
    \/ Includes(ToLowerCase(w.text), query)
    \/ w.mood.k = "string" /\ Includes(ToLowerCase(w.mood.s), query)
\* The second operand is evaluated only when the first is false; with no
\* mood, whisper.mood.toLowerCase() is a TypeError.
SearchThrowsOn(w, query) ==
    ~Includes(ToLowerCase(w.text), query) /\ w.mood.k = "undefined"
SearchThrows(arr, query) == \E i \in 1..Len(arr) : SearchThrowsOn(arr[i], query)
\* Mutant of SearchFilter: the value of filtered.filter(...) is dropped.
SearchFilterDiscarded(arr, query) == arr
SearchFilter(arr, query) ==
    LET keep(w) == SearchMatches(w, query) IN SelectSeq(arr, keep)

\* -------------------------------------------------------------------- dates
\* new Date(timestamp || Date.now()), at clock reading t: the time value of
\* the date, NaN for an Invalid Date, or a TypeError.
DateOf(ts, t) ==
    IF ~Truthy(ts) THEN [k |-> "time", v |-> t]
    ELSE CASE ts.k = "number" -> [k |-> "time", v |-> ts.v]
           [] ts.k = "string" -> [k |-> "nan", v |-> 0]
           [] OTHER -> [k |-> "throw", v |-> 0]
DateThrows(w) == Truthy(w.timestamp) /\ w.timestamp.k = "symbol"
\* (Date.now() - new Date(...)) in milliseconds; the code divides it by
\* 1000 * 60 * 60, the model keeps milliseconds and scales what it is compared to.
AgeMs(w, t) == t - DateOf(w.timestamp, t).v
AgeIsNaN(w, t) == DateOf(w.timestamp, t).k = "nan"
\* Mutant of WithinTrendingWindow: the age is divided down to days, not hours.
WithinTrendingWindowDays(w, t) ==
    ~AgeIsNaN(w, t) /\ AgeMs(w, t) <= TRENDING_MAX_HOURS * 24 * MS_PER_HOUR
\* hoursOld <= 24 (false for NaN)
WithinTrendingWindow(w, t) ==
    ~AgeIsNaN(w, t) /\ AgeMs(w, t) <= TRENDING_MAX_HOURS * MS_PER_HOUR
\* Math.max(1, hours), in milliseconds
TrendingHoursMs(w, t) == Max(MS_PER_HOUR, AgeMs(w, t))

\* -------------------------------------------------------------- comparators
\* The sign of comparefn(a, b) for the rule; a NaN result counts as 0, as
\* Array.prototype.sort takes it.
\* Mutant of ComparePopular: a.likes - b.likes, ascending.
ComparePopularAscending(a, b) == Sign(OrZero(a.likes) - OrZero(b.likes))
ComparePopular(a, b) == Sign(OrZero(b.likes) - OrZero(a.likes))
CompareRecent(a, b, t) ==
    IF AgeIsNaN(a, t) \/ AgeIsNaN(b, t) THEN 0
    ELSE Sign(DateOf(b.timestamp, t).v - DateOf(a.timestamp, t).v)
\* A nearby comparator that sorts a record without a distance as farthest.
CompareNearbyMissingLast(a, b) ==
    LET far(w) == IF w.distance = Undefined THEN 5000
                  ELSE OrZero(w.distance)
    IN Sign(far(a) - far(b))
CompareNearby(a, b) == Sign(OrZero(a.distance) - OrZero(b.distance))
\* Mutant of CompareTrending: aScore - bScore, ascending.
CompareTrendingAscending(a, b, t) ==
    IF AgeIsNaN(a, t) \/ AgeIsNaN(b, t) THEN 0
    ELSE Sign(OrZero(a.likes) * TrendingHoursMs(b, t)
              - OrZero(b.likes) * TrendingHoursMs(a, t))
\* bLikes / bHours - aLikes / aHours, both hours positive: cross-multiplied.
CompareTrending(a, b, t) ==
    IF AgeIsNaN(a, t) \/ AgeIsNaN(b, t) THEN 0
    ELSE Sign(OrZero(b.likes) * TrendingHoursMs(a, t)
              - OrZero(a.likes) * TrendingHoursMs(b, t))
Compare(rule, a, b, t) ==
    CASE rule = "popular" -> ComparePopular(a, b)
      [] rule = "recent" -> CompareRecent(a, b, t)
      [] rule = "nearby" -> CompareNearby(a, b)
      [] rule = "trending" -> CompareTrending(a, b, t)
CompareYieldsNaN(rule, a, b, t) ==
    rule \in {"recent", "trending"} /\ (AgeIsNaN(a, t) \/ AgeIsNaN(b, t))
CompareThrows(rule, a, b) ==
    rule \in {"recent", "trending"} /\ (DateThrows(a) \/ DateThrows(b))

\* --------------------------------------------------------------------- sort
\* An insertion that puts x before the elements it compares equal to.
RECURSIVE InsertBeforeEqual(_, _, _, _)
InsertBeforeEqual(sorted, x, rule, t) ==
    IF sorted = <<>> THEN <<x>>
    ELSE IF Compare(rule, Head(sorted), x, t) < 0
         THEN <<Head(sorted)>> \o InsertBeforeEqual(Tail(sorted), x, rule, t)
         ELSE <<x>> \o sorted
\* Array.prototype.sort is a stable sort: x goes after every element that
\* does not compare greater than it.
RECURSIVE InsertSorted(_, _, _, _)
InsertSorted(sorted, x, rule, t) ==
    IF sorted = <<>> THEN <<x>>
    ELSE IF Compare(rule, Head(sorted), x, t) <= 0
         THEN <<Head(sorted)>> \o InsertSorted(Tail(sorted), x, rule, t)
         ELSE <<x>> \o sorted
RECURSIVE StableSort(_, _, _)
StableSort(arr, rule, t) ==
    IF arr = <<>> THEN <<>>
    ELSE InsertSorted(StableSort(SubSeq(arr, 1, Len(arr) - 1), rule, t),
                      arr[Len(arr)], rule, t)
\* ECMAScript's "consistent comparator" for the elements of arr: =, < and >
\* under comparefn are each transitive (reflexivity and symmetry hold of
\* every rule here).  A comparator that never yields NaN is a numeric
\* difference and is consistent.
ConsistentComparator(arr, rule, t) ==
    \/ \A a, b \in Range(arr) : ~CompareYieldsNaN(rule, a, b, t)
    \/ \A a, b, c \in Range(arr) :
          /\ (Compare(rule, a, b, t) = 0 /\ Compare(rule, b, c, t) = 0)
                => Compare(rule, a, c, t) = 0
          /\ (Compare(rule, a, b, t) < 0 /\ Compare(rule, b, c, t) < 0)
                => Compare(rule, a, c, t) < 0
          /\ (Compare(rule, a, b, t) > 0 /\ Compare(rule, b, c, t) > 0)
                => Compare(rule, a, c, t) > 0
\* What arr.sort(comparefn) can leave in the array: the stable sort, or, with
\* a comparator that is not consistent, an implementation-defined order.
SortOutcomes(arr, rule, t) ==
    IF ConsistentComparator(arr, rule, t)
    THEN {StableSort(arr, rule, t)}
    ELSE Perms(arr)
\* A sort of two or more elements calls comparefn on every element at least
\* once, so it throws when one of them makes comparefn throw.
SortThrows(arr, rule) ==
    /\ Len(arr) >= 2
    /\ \E i, j \in 1..Len(arr) : i # j /\ CompareThrows(rule, arr[i], arr[j])
\* What an in-place sort that throws can leave in the array: the engine may
\* have moved elements before comparefn threw.
AbortedSortOutcomes(arr) == Perms(arr)

\* ------------------------------------------------------------ category rule
NEARBY_MAX_DISTANCE == 1000
\* A nearby filter that keeps everything within two kilometres.
NearbyFilterTwoKilometres(arr) ==
    LET keep(w) == OrZero(w.distance) <= 2000 IN SelectSeq(arr, keep)
NearbyFilter(arr) ==
    LET keep(w) == OrZero(w.distance) <= NEARBY_MAX_DISTANCE IN SelectSeq(arr, keep)
TrendingFilterThrows(arr) == \E i \in 1..Len(arr) : DateThrows(arr[i])
TrendingFilter(arr, t) ==
    LET keep(w) == WithinTrendingWindow(w, t) IN SelectSeq(arr, keep)
\* Mutant of PopularFallback: the catch branch only logs the error.
FallbackUnsorted(fr, t) == [fr |-> fr, fellBack |-> TRUE]
\* catch (error): filtered = filtered.sort(by likes descending)
PopularFallback(fr, t) ==
    [fr |-> SortInPlace(fr, StableSort(fr.cur, "popular", t)), fellBack |-> TRUE]
NoFallback(fr) == [fr |-> fr, fellBack |-> FALSE]
\* The try block: the switch over selectedCategory, and the catch.
PopularRule(fr, t) ==
    {NoFallback(SortInPlace(fr, s)) : s \in SortOutcomes(fr.cur, "popular", t)}
RecentRule(fr, t) ==
    IF SortThrows(fr.cur, "recent")
    THEN {PopularFallback(SortInPlace(fr, left), t) : left \in AbortedSortOutcomes(fr.cur)}
    ELSE {NoFallback(SortInPlace(fr, s)) : s \in SortOutcomes(fr.cur, "recent", t)}
NearbyRule(fr, t) ==
    {NoFallback(FilterInto(fr, s)) : s \in SortOutcomes(NearbyFilter(fr.cur), "nearby", t)}
TrendingRule(fr, t) ==
    IF TrendingFilterThrows(fr.cur)
    THEN {PopularFallback(fr, t)}
    ELSE {NoFallback(FilterInto(fr, s)) :
              s \in SortOutcomes(TrendingFilter(fr.cur, t), "trending", t)}
\* A switch whose default branch sorts as 'popular' does.
CategoryRuleDefaultPopular(fr, category, t) ==
    CASE category = "recent" -> RecentRule(fr, t)
      [] category = "nearby" -> NearbyRule(fr, t)
      [] category = "trending" -> TrendingRule(fr, t)
      [] OTHER -> PopularRule(fr, t)
\* switch (selectedCategory) { ... default: break; }
CategoryRule(fr, category, t) ==
    CASE category = "popular" -> PopularRule(fr, t)
      [] category = "recent" -> RecentRule(fr, t)
      [] category = "nearby" -> NearbyRule(fr, t)
      [] category = "trending" -> TrendingRule(fr, t)
      [] OTHER -> {NoFallback(fr)}

\* -------------------------------------------------------------- the query
\* let filtered = [...whispers]; if (searchQuery.trim()) filtered = filtered.filter(...)
SearchStage(ws, sq) ==
    LET fr == SpreadCopy(ws) IN
    IF TrimIsEmpty(sq) THEN fr
    ELSE FilterInto(fr, SearchFilter(fr.cur, ToLowerCase(sq)))
SearchStageThrows(ws, sq) == ~TrimIsEmpty(sq) /\ SearchThrows(ws, ToLowerCase(sq))
\* Mutant of Paginate: only the items of the current page.
PaginateOnePage(arr, pg) == Slice(arr, (pg - 1) * ITEMS_PER_PAGE, pg * ITEMS_PER_PAGE)
\* return filtered.slice(0, page * ITEMS_PER_PAGE)
Paginate(arr, pg) == Slice(arr, 0, pg * ITEMS_PER_PAGE)
\* One evaluation of the getFilteredWhispers memo at clock reading t: whether
\* it threw to its caller, whether the catch branch ran, the array before the
\* slice, the value returned, and the content of the caller's array afterwards.
QueryOutcomes(ws, sq, category, pg, t) ==
    IF SearchStageThrows(ws, sq)
    THEN {[threw |-> TRUE, fellBack |-> FALSE, all |-> <<>>, out |-> <<>>, src |-> ws]}
    ELSE {[threw |-> FALSE, fellBack |-> o.fellBack, all |-> o.fr.cur,
           out |-> Paginate(o.fr.cur, pg), src |-> o.fr.src] :
              o \in CategoryRule(SearchStage(ws, sq), category, t)}

\* ------------------------------------------------------------------- inputs
\* A whisper record as the store hands it to the screens.
Whisper(id, text, mood, likes, timestamp, distance, userId) ==
    [id |-> id, text |-> text, mood |-> mood, likes |-> likes,
     timestamp |-> timestamp, distance |-> distance, userId |-> userId]
\* The userId values of the records.
UserOne == Str(<<"u", "1">>)
UserTwo == Str(<<"u", "2">>)
Calm == Str(<<"c", "a", "l", "m">>)
Love == Str(<<"l", "o", "v", "e">>)
\* The records the short collections are drawn from: the three of the
\* documented example (likes 5, 9, 2), one with every optional field absent,
\* one with an unparsable timestamp, one with a timestamp that throws and no
\* userId, and
\* one with the most likes, the timestamp of the first and a blank in its
\* text.
WhisperPool ==
    { Whisper(1, <<"a", "b">>, Calm, Num(5), Num(T0 - MS_PER_HOUR), Num(500), UserOne),
      Whisper(2, <<"B">>, Love, Num(9), Num(T0 - TickMs), Num(1500), UserTwo),
      Whisper(3, <<"c">>, Calm, Num(2), Num(T0 - TRENDING_MAX_HOURS * MS_PER_HOUR),
              Undefined, UserOne),
      Whisper(4, <<"a", "b">>, NoString, Undefined, Undefined, Num(0), UserTwo),
      Whisper(5, <<"c">>, Love, Num(9), BadDateString, Num(1000), UserOne),
      Whisper(6, <<"B">>, Calm, Num(5), SymbolValue, Num(200), NoString),
      Whisper(7, <<"a", "B", " ", "c">>, Love, Num(15), Num(T0 - MS_PER_HOUR), Num(700), UserOne) }
\* Collections of up to MaxWhispers records of the pool, ids unique.
ShortCollections ==
    {ws \in UNION {[1..n -> WhisperPool] : n \in 0..MaxWhispers} :
        \A i, j \in 1..Len(ws) : ws[i].id = ws[j].id => i = j}
\* The i-th record of a long collection: well-formed, likes cycling through
\* 0..3, the first exactly 24 hours old at T0, the others up to 2 hours old.
FillerWhisper(i) ==
    Whisper(100 + i,
            IF i % 2 = 1 THEN <<"a", "b">> ELSE <<"c">>,
            IF i % 3 = 0 THEN Love ELSE Calm,
            Num(i % 4),
            Num(IF i = 1 THEN T0 - TRENDING_MAX_HOURS * MS_PER_HOUR
                         ELSE T0 - (i % 3) * MS_PER_HOUR),
            Num(100 * i),
            IF i % 2 = 1 THEN UserOne ELSE UserTwo)
LongCollections ==
    {[i \in 1..n |-> FillerWhisper(i)] : n \in (ITEMS_PER_PAGE - 1)..MaxFiller}
Collections == ShortCollections \cup LongCollections
\* What the search box is given.
SearchInputs == {<<>>, <<"c">>, <<"B">>}
\* Search strings made of or padded with white space.
PaddedSearchInputs == {<<" ">>, <<" ", "c">>, <<"B", " ">>}
\* const categories: the ids the category buttons pass to handleCategoryChange.
CategoryIds == {"popular", "recent", "nearby", "trending"}
\* An identifier that no case of the switch names.
OtherCategoryIds == {"favorites"}

\* ---------------------------------------------------------- mood statistics
MaxMoods == 3
\* const mood = whisper.mood || 'unknown'
MoodKey(w) ==
    IF w.mood.k = "string" /\ w.mood.s # <<>> THEN w.mood.s
    ELSE <<"u", "n", "k", "n", "o", "w", "n">>
\* stats[id] || 0 after the reduce: the number of whispers whose key is id
MoodCount(ws, id) == Cardinality({i \in 1..Len(ws) : MoodKey(ws[i]) = id})
\* A percentage that leaves out the factor 100.
PercentageAsFraction(count, total) == [num |-> count, den |-> total]
\* count / whispers.length * 100, as the fraction num / den
Percentage(count, total) == [num |-> count * 100, den |-> total]
\* { ...mood, count, percentage }
MoodEntry(mood, ws) ==
    [id |-> mood.id, count |-> MoodCount(ws, mood.id),
     percentage |-> Percentage(MoodCount(ws, mood.id), Len(ws))]
\* An insertion that puts x before the entries with the same count.
RECURSIVE InsertByCountBeforeEqual(_, _)
InsertByCountBeforeEqual(sorted, x) ==
    IF sorted = <<>> THEN <<x>>
    ELSE IF x.count - Head(sorted).count < 0
         THEN <<Head(sorted)>> \o InsertByCountBeforeEqual(Tail(sorted), x)
         ELSE <<x>> \o sorted
\* .sort((a, b) => b.count - a.count), a stable sort: x goes after every
\* entry that does not compare greater than it.
RECURSIVE InsertByCount(_, _)
InsertByCount(sorted, x) ==
    IF sorted = <<>> THEN <<x>>
    ELSE IF x.count - Head(sorted).count <= 0
         THEN <<Head(sorted)>> \o InsertByCount(Tail(sorted), x)
         ELSE <<x>> \o sorted
RECURSIVE SortByCount(_)
SortByCount(arr) ==
    IF arr = <<>> THEN <<>>
    ELSE InsertByCount(SortByCount(SubSeq(arr, 1, Len(arr) - 1)), arr[Len(arr)])
\* The getMoodStats memo over the collection ws and the imported list MOODS.
GetMoodStats(ws, MOODS) ==
    IF Len(ws) = 0 THEN <<>>
    ELSE SortByCount([k \in 1..Len(MOODS) |-> MoodEntry(MOODS[k], ws)])
\* percentage.toFixed(1), in tenths of a percent
ToFixed1(p) == (2 * 10 * p.num + p.den) \div (2 * p.den)
\* The lists MOODS may be: up to MaxMoods moods with distinct ids.
MoodIdPool == {Calm.s, Love.s, <<"d", "e", "a", "r">>, <<"g", "r", "e", "e", "d">>}
MoodLists ==
    {ml \in UNION {[1..n -> [id : MoodIdPool]] : n \in 0..MaxMoods} :
        \A i, j \in 1..Len(ml) : ml[i].id = ml[j].id => i = j}

\* ------------------------------------------------------- profile statistics
\* user?.id
UserIdOf(u) == IF u.k = "object" THEN u.id ELSE NoString
\* A filter that keeps every whisper.
UserWhispersUnfiltered(ws, u) == ws
\* whispers.filter(whisper => whisper.userId === user?.id) || []
UserWhispers(ws, u) ==
    LET keep(w) == w.userId = UserIdOf(u) IN SelectSeq(ws, keep)
\* userWhispers.reduce((sum, whisper) => sum + (whisper.likes || 0), 0)
RECURSIVE TotalLikes(_)
TotalLikes(arr) ==
    IF arr = <<>> THEN 0
    ELSE TotalLikes(SubSeq(arr, 1, Len(arr) - 1)) + OrZero(arr[Len(arr)].likes)
\* The moodStats reduce: the count of each key that occurs.
MoodStatsOf(arr) ==
    [key \in {MoodKey(arr[i]) : i \in 1..Len(arr)} |-> MoodCount(arr, key)]
\* parseFloat(length > 0 ? (totalLikes / length).toFixed(1) : 0), in tenths
AvgLikes(total, length) ==
    IF length > 0 THEN ToFixed1([num |-> total, den |-> length]) ELSE 0
\* The userStats memo (activeDays, a random number, is left out).
UserStats(ws, u) ==
    LET userWhispers == UserWhispers(ws, u) IN
    [userWhispers |-> userWhispers,
     totalLikes |-> TotalLikes(userWhispers),
     moodStats |-> MoodStatsOf(userWhispers),
     totalWhispers |-> Len(userWhispers),
     avgLikes |-> AvgLikes(TotalLikes(userWhispers), Len(userWhispers))]

\* -------------------------------------------------------------------- state
VARIABLES
    whispers,             \* useApp().whispers
    searchQuery,          \* useState('')
    selectedCategory,     \* useState('popular')
    loading,              \* useState(false)
    page,                 \* useState(1)
    getFilteredWhispers,  \* the value of the useMemo
    memoAll,              \* `filtered` just before the slice, in that evaluation
    memoFellBack,         \* whether that evaluation ran the catch branch
    memoNow,              \* the clock reading of that evaluation
    crashed,              \* the memo threw while rendering
    loadMoreTimers,       \* pending setTimeout callbacks of handleLoadMore
    loadMoreSinceChange,  \* handleLoadMore started a timer since the last search/category change
    now,                  \* Date.now()
    locationRadius,       \* useApp().locationRadius, the radius chosen in Settings
    user,                 \* useApp().user, the Profile screen's user
    profileRefreshing,    \* ProfileScreen: useState(false), refreshing
    profileRefreshes,     \* ProfileScreen: onRefresh calls awaiting their timer
    profileRefreshFailed, \* ProfileScreen: the last onRefresh ran its catch
    homeRefreshing,       \* HomeScreen: useState(false), refreshing
    homeRefreshes,        \* HomeScreen: onRefresh calls awaiting their timer
    homeRefreshFailed,    \* HomeScreen: the last onRefresh ran its catch
    loadingLocation,      \* HomeScreen: useState(false), loadingLocation
    locationRequests,     \* HomeScreen: requestLocationPermission() calls pending
    locationFailed,       \* HomeScreen: the last handleLocationPress ran its catch
    settingsLoading,      \* SettingsScreen: useState(false), loading
    clearDataRuns,        \* SettingsScreen: confirmed 'Clear Data' runs awaiting their timer
    clearDataAlert,       \* SettingsScreen: the alert the last such run showed
    selectedMood,         \* useApp().selectedMood
    location,             \* useApp().location, by the number of fixes so far
    filteredWhispers,     \* HomeScreen: the value of the useMemo
    storeAdds,            \* whispers the store has added
    storeLikes,           \* likes the store has counted
    draftText,            \* AddWhisperScreen: useState(''), text
    currentMood,          \* AddWhisperScreen: useState(selectedMood)
    isPosting,            \* AddWhisperScreen: useState(false)
    validationError,      \* AddWhisperScreen: useState('')
    addAlert,             \* AddWhisperScreen: the alert on display
    addCalls,             \* addWhisper() calls that have not settled
    postedText,           \* first argument of the last addWhisper() call
    postedMood,           \* second argument of the last addWhisper() call
    lastValid,            \* validateWhisperText(text).isValid in the last handlePost
    lastBad,              \* containsBadWords(text) in the last handlePost, if reached
    handlePostRuns,       \* AddWhisperScreen: how often handlePost has run
    navigatedBack         \* AddWhisperScreen: navigation.goBack() was called

vars == <<whispers, searchQuery, selectedCategory, loading, page,
          getFilteredWhispers, memoAll, memoFellBack, memoNow, crashed,
          loadMoreTimers, loadMoreSinceChange, now, locationRadius, user,
          profileRefreshing, profileRefreshes, profileRefreshFailed,
          homeRefreshing, homeRefreshes, homeRefreshFailed,
          loadingLocation, locationRequests, locationFailed,
          settingsLoading, clearDataRuns, clearDataAlert, selectedMood, location,
          filteredWhispers, storeAdds, storeLikes, draftText, currentMood,
          isPosting, validationError, addAlert, addCalls, postedText,
          postedMood, lastValid, lastBad, handlePostRuns, navigatedBack>>
\* The state of the Explore screen, the store's collection and the clock.
exploreVars == <<whispers, searchQuery, selectedCategory, loading, page,
                 getFilteredWhispers, memoAll, memoFellBack, memoNow, crashed,
                 loadMoreTimers, loadMoreSinceChange, now>>
\* The state of the Settings screen.
settingsVars == <<locationRadius>>
\* The state of the Profile screen.
profileVars == <<user, profileRefreshing, profileRefreshes, profileRefreshFailed>>
\* The busy flags of the Home screen.
homeBusyVars == <<homeRefreshing, homeRefreshes, homeRefreshFailed,
                  loadingLocation, locationRequests, locationFailed>>
\* The Settings screen's 'Clear All Data'.
clearDataVars == <<settingsLoading, clearDataRuns, clearDataAlert>>
\* The Home screen's feed and what its memo depends on.
homeFeedVars == <<selectedMood, location, filteredWhispers>>
\* How often the store was asked to add and to like.
storeCountVars == <<storeAdds, storeLikes>>
\* The state of the AddWhisper screen.
addVars == <<draftText, currentMood, isPosting, validationError, addAlert, addCalls,
             postedText, postedMood, lastValid, lastBad, handlePostRuns,
             navigatedBack>>
\* What no handler of the Explore screen touches.
offExplore == <<profileVars, homeBusyVars, clearDataVars, homeFeedVars,
                storeCountVars, addVars>>
\* What no handler of the busy flags touches.
offBusy == <<exploreVars, settingsVars, clearDataVars, storeCountVars, addVars>>

\* radiusOptions of the Settings screen, in metres
RadiusOptions == {500, 1000, 2000, 5000}

\* The memo's evaluation during a render with the given dependencies.
Evaluate(sq, category, pg) ==
    \E o \in QueryOutcomes(whispers, sq, category, pg, now) :
        /\ whispers' = o.src
        /\ getFilteredWhispers' = o.out
        /\ memoAll' = o.all
        /\ memoFellBack' = o.fellBack
        /\ memoNow' = now
        /\ crashed' = o.threw
\* useMemo(..., [whispers, searchQuery, selectedCategory, page]): the render
\* after a handler re-evaluates the memo only when a dependency changed.
Render(sq, category, pg) ==
    IF <<sq, category, pg>> = <<searchQuery, selectedCategory, page>>
    THEN UNCHANGED <<whispers, getFilteredWhispers, memoAll, memoFellBack,
                     memoNow, crashed>>
    ELSE Evaluate(sq, category, pg)

\* The Explore and Settings screens after the first render, over a
\* collection of colls that the store supplies.
InitExploreOver(colls) ==
    /\ searchQuery = <<>>
    /\ selectedCategory = "popular"
    /\ loading = FALSE
    /\ page = 1
    /\ now = T0
    /\ loadMoreTimers = 0
    /\ loadMoreSinceChange = FALSE
    /\ locationRadius = 1000
    /\ \E ws \in colls :
        \E o \in QueryOutcomes(ws, <<>>, "popular", 1, T0) :
            /\ whispers = o.src
            /\ getFilteredWhispers = o.out
            /\ memoAll = o.all
            /\ memoFellBack = o.fellBack
            /\ memoNow = T0
            /\ crashed = o.threw
\* The user of the store: none, or one with an id.
NullUser == [k |-> "null", id |-> NoString]
UserWith(id) == [k |-> "object", id |-> id]
Users == {NullUser, UserWith(UserOne), UserWith(UserTwo)}
\* The store's getFilteredWhispers(): the whispers of the selected mood, all
\* of them when no mood is selected.
StoreGetFilteredWhispers(ws, mood) ==
    LET keep(w) == w.mood = mood
    IN IF mood = NoString THEN ws ELSE SelectSeq(ws, keep)
\* The other screens at rest: nothing pending, an empty draft, the store's
\* selected mood as given.
InitScreensWithMood(mood) ==
    /\ settingsLoading = FALSE /\ clearDataRuns = 0 /\ clearDataAlert = "none"
    /\ selectedMood = mood /\ location = 0
    /\ filteredWhispers = StoreGetFilteredWhispers(whispers, mood)
    /\ storeAdds = 0 /\ storeLikes = 0
    /\ draftText = <<>> /\ currentMood = mood /\ isPosting = FALSE
    /\ validationError = "" /\ addAlert = "none" /\ addCalls = 0
    /\ postedText = <<>> /\ postedMood = NoString
    /\ lastValid = TRUE /\ lastBad = FALSE /\ handlePostRuns = 0
    /\ navigatedBack = FALSE
    /\ profileRefreshing = FALSE /\ profileRefreshes = 0
    /\ profileRefreshFailed = FALSE
    /\ homeRefreshing = FALSE /\ homeRefreshes = 0 /\ homeRefreshFailed = FALSE
    /\ loadingLocation = FALSE /\ locationRequests = 0
    /\ locationFailed = FALSE
\* The same with no mood selected.
InitScreensAtRest == InitScreensWithMood(NoString)
\* The other screens, at rest, with the first poster signed in.
InitOffExplore == user = UserWith(UserOne) /\ InitScreensAtRest
\* The state after the first render.
Init == InitExploreOver(Collections) /\ InitOffExplore

\* handleSearch(text): setSearchQuery(text); setPage(1).  The 300 ms
\* analytics timer it restarts has an empty body and is left out.
HandleSearch(text) ==
    /\ ~crashed
    /\ searchQuery' = text
    /\ page' = 1
    /\ loadMoreSinceChange' = FALSE
    /\ Render(text, selectedCategory, 1)
    /\ UNCHANGED <<selectedCategory, loading, loadMoreTimers, now, locationRadius, offExplore>>

\* handleCategoryChange(categoryId): setSelectedCategory(categoryId); setPage(1)
HandleCategoryChange(categoryId) ==
    /\ ~crashed
    /\ selectedCategory' = categoryId
    /\ page' = 1
    /\ loadMoreSinceChange' = FALSE
    /\ Render(searchQuery, categoryId, 1)
    /\ UNCHANGED <<searchQuery, loading, loadMoreTimers, now, locationRadius, offExplore>>

\* A handleLoadMore that does not look at the loading flag.
HandleLoadMoreWhileLoading ==
    /\ ~crashed
    /\ IF Len(getFilteredWhispers) = page * ITEMS_PER_PAGE
       THEN /\ loading' = TRUE
            /\ loadMoreTimers' = loadMoreTimers + 1
            /\ loadMoreSinceChange' = TRUE
       ELSE UNCHANGED <<loading, loadMoreTimers, loadMoreSinceChange>>
    /\ UNCHANGED <<whispers, searchQuery, selectedCategory, page,
                   getFilteredWhispers, memoAll, memoFellBack, memoNow,
                   crashed, now, locationRadius, offExplore>>

\* A handleLoadMore that starts the timer whenever the list is not empty.
HandleLoadMoreWhenNonEmpty ==
    /\ ~crashed
    /\ IF ~loading /\ Len(getFilteredWhispers) > 0
       THEN /\ loading' = TRUE
            /\ loadMoreTimers' = loadMoreTimers + 1
            /\ loadMoreSinceChange' = TRUE
       ELSE UNCHANGED <<loading, loadMoreTimers, loadMoreSinceChange>>
    /\ UNCHANGED <<whispers, searchQuery, selectedCategory, page,
                   getFilteredWhispers, memoAll, memoFellBack, memoNow,
                   crashed, now, locationRadius, offExplore>>

\* handleLoadMore(), the list's onEndReached: starts the 500 ms timer when
\* not loading and the rendered list is exactly page * ITEMS_PER_PAGE long.
HandleLoadMore ==
    /\ ~crashed
    /\ IF ~loading /\ Len(getFilteredWhispers) = page * ITEMS_PER_PAGE
       THEN /\ loading' = TRUE
            /\ loadMoreTimers' = loadMoreTimers + 1
            /\ loadMoreSinceChange' = TRUE
       ELSE UNCHANGED <<loading, loadMoreTimers, loadMoreSinceChange>>
    /\ UNCHANGED <<whispers, searchQuery, selectedCategory, page,
                   getFilteredWhispers, memoAll, memoFellBack, memoNow,
                   crashed, now, locationRadius, offExplore>>

\* The timer's callback: setPage(prev => prev + 1); setLoading(false)
LoadMoreTimeout ==
    /\ ~crashed
    /\ loadMoreTimers > 0
    /\ loadMoreTimers' = loadMoreTimers - 1
    /\ page' = page + 1
    /\ loading' = FALSE
    /\ Render(searchQuery, selectedCategory, page + 1)
    /\ UNCHANGED <<searchQuery, selectedCategory, loadMoreSinceChange, now,
                   locationRadius, offExplore>>

\* Time passes; nothing is rendered.
Tick ==
    /\ now < T0 + MaxTicks * TickMs
    /\ now' = now + TickMs
    /\ UNCHANGED <<whispers, searchQuery, selectedCategory, loading, page,
                   getFilteredWhispers, memoAll, memoFellBack, memoNow,
                   crashed, loadMoreTimers, loadMoreSinceChange, locationRadius, offExplore>>

Next ==
    \/ \E text \in SearchInputs : HandleSearch(text)
    \/ \E categoryId \in CategoryIds : HandleCategoryChange(categoryId)
    \/ HandleLoadMore
    \/ LoadMoreTimeout
    \/ Tick

Spec == Init /\ [][Next]_vars

\* Settings screen, handleRadiusChange(value): await setLocationRadius(value).
\* The setter stores the value; a rejected call leaves the state as it was.
\* Nothing the Explore screen's memo depends on changes.
HandleRadiusChange(value) ==
    /\ locationRadius' = value
    /\ UNCHANGED <<whispers, searchQuery, selectedCategory, loading, page,
                   getFilteredWhispers, memoAll, memoFellBack, memoNow,
                   crashed, loadMoreTimers, loadMoreSinceChange, now, offExplore>>

\* The Explore screen together with the Settings screen's radius picker, the
\* clock held still.
NextSettings ==
    \/ \E text \in SearchInputs : HandleSearch(text)
    \/ \E categoryId \in CategoryIds : HandleCategoryChange(categoryId)
    \/ HandleLoadMore
    \/ LoadMoreTimeout
    \/ \E value \in RadiusOptions : HandleRadiusChange(value)

SpecSettings == Init /\ [][NextSettings]_vars

\* The Explore screen with white space typed into the search box as well,
\* the clock held still.
NextSearch ==
    \/ \E text \in SearchInputs \cup PaddedSearchInputs : HandleSearch(text)
    \/ \E categoryId \in CategoryIds : HandleCategoryChange(categoryId)
    \/ HandleLoadMore
    \/ LoadMoreTimeout

SpecSearch == Init /\ [][NextSearch]_vars

\* The Explore screen with handleCategoryChange given any identifier.
NextAnyCategory ==
    \/ \E text \in SearchInputs : HandleSearch(text)
    \/ \E categoryId \in CategoryIds \cup OtherCategoryIds :
          HandleCategoryChange(categoryId)
    \/ HandleLoadMore
    \/ LoadMoreTimeout
    \/ Tick

SpecAnyCategory == Init /\ [][NextAnyCategory]_vars

\* The Explore screen as the mood statistics see it: getMoodStats depends on
\* whispers alone, so the collections of Init are what matters, and the
\* category buttons are the handlers that run.
NextMoodStats == \E categoryId \in CategoryIds : HandleCategoryChange(categoryId)

SpecMoodStats == Init /\ [][NextMoodStats]_vars

\* ------------------------------------------------------------- busy flags
MaxRefreshes == 2
MaxLocations == 1
\* ProfileScreen onRefresh, up to its first await: setRefreshing(true)
ProfileOnRefresh ==
    /\ ~crashed
    /\ profileRefreshes < MaxRefreshes
    /\ profileRefreshing' = TRUE
    /\ profileRefreshes' = profileRefreshes + 1
    /\ UNCHANGED <<offBusy, user, profileRefreshFailed, homeBusyVars,
                   homeFeedVars>>
\* An onRefresh whose catch branch does the resetting, with no finally.
ProfileRefreshSettlesNoFinally(failed) ==
    /\ profileRefreshes > 0
    /\ profileRefreshes' = profileRefreshes - 1
    /\ profileRefreshFailed' = failed
    /\ profileRefreshing' = IF failed THEN profileRefreshing ELSE FALSE
    /\ UNCHANGED <<offBusy, user, homeBusyVars, homeFeedVars>>
\* The rest of onRefresh: the awaited import or the 1000 ms timer settles;
\* a rejection runs the catch (an alert); finally setRefreshing(false).
ProfileRefreshSettles(failed) ==
    /\ profileRefreshes > 0
    /\ profileRefreshes' = profileRefreshes - 1
    /\ profileRefreshFailed' = failed
    /\ profileRefreshing' = FALSE
    /\ UNCHANGED <<offBusy, user, homeBusyVars, homeFeedVars>>
\* HomeScreen onRefresh, up to its first await: setRefreshing(true)
HomeOnRefresh ==
    /\ ~crashed
    /\ homeRefreshes < MaxRefreshes
    /\ homeRefreshing' = TRUE
    /\ homeRefreshes' = homeRefreshes + 1
    /\ UNCHANGED <<offBusy, profileVars, homeRefreshFailed, homeFeedVars,
                   loadingLocation, locationRequests, locationFailed>>
\* The rest of it: catch on rejection, finally setRefreshing(false).
HomeRefreshSettles(failed) ==
    /\ homeRefreshes > 0
    /\ homeRefreshes' = homeRefreshes - 1
    /\ homeRefreshFailed' = failed
    /\ homeRefreshing' = FALSE
    /\ UNCHANGED <<offBusy, profileVars, homeFeedVars,
                   loadingLocation, locationRequests, locationFailed>>
\* HomeScreen handleLocationPress, up to its await:
\* if (loadingLocation) return; setLoadingLocation(true)
HandleLocationPress ==
    /\ ~crashed
    /\ IF loadingLocation
       THEN UNCHANGED <<loadingLocation, locationRequests>>
       ELSE /\ loadingLocation' = TRUE
            /\ locationRequests' = locationRequests + 1
    /\ UNCHANGED <<offBusy, profileVars, homeFeedVars, homeRefreshing,
                   homeRefreshes, homeRefreshFailed, locationFailed>>
\* requestLocationPermission() settles: catch on rejection, finally
\* setLoadingLocation(false).  A request that succeeded may have given the
\* store a new location, a dependency of the feed's memo.
LocationRequestSettles(failed, moved) ==
    /\ locationRequests > 0
    /\ locationRequests' = locationRequests - 1
    /\ locationFailed' = failed
    /\ loadingLocation' = FALSE
    /\ IF moved /\ ~failed /\ location < MaxLocations
       THEN /\ location' = location + 1
            /\ filteredWhispers' = StoreGetFilteredWhispers(whispers, selectedMood)
       ELSE UNCHANGED <<location, filteredWhispers>>
    /\ UNCHANGED <<offBusy, profileVars, selectedMood, homeRefreshing,
                   homeRefreshes, homeRefreshFailed>>

\* The Profile and Home screens' busy flags over an empty store, which none
\* of these handlers reads.
InitBusy == InitExploreOver({<<>>}) /\ InitOffExplore
NextBusy ==
    \/ ProfileOnRefresh
    \/ \E failed \in BOOLEAN : ProfileRefreshSettles(failed)
    \/ HomeOnRefresh
    \/ \E failed \in BOOLEAN : HomeRefreshSettles(failed)
    \/ HandleLocationPress
    \/ \E failed, moved \in BOOLEAN : LocationRequestSettles(failed, moved)
\* Every awaited promise settles: timers fire, imports and the permission
\* request resolve or reject.
SpecBusy ==
    /\ InitBusy /\ [][NextBusy]_vars
    /\ WF_vars(\E failed \in BOOLEAN : ProfileRefreshSettles(failed))
    /\ WF_vars(\E failed \in BOOLEAN : HomeRefreshSettles(failed))
    /\ WF_vars(\E failed, moved \in BOOLEAN : LocationRequestSettles(failed, moved))

\* The Profile screen over every collection and user.
InitProfile ==
    /\ InitExploreOver(Collections)
    /\ user \in Users
    /\ InitScreensAtRest
NextProfile ==
    \/ ProfileOnRefresh
    \/ \E failed \in BOOLEAN : ProfileRefreshSettles(failed)
SpecProfile == InitProfile /\ [][NextProfile]_vars

\* -------------------------------------------------------------- the store
MaxStoreAdds == 1
MaxStoreLikes == 1
MaxClearRuns == 1
\* The memo's evaluation during the render that follows a change of the
\* store's collection to ws.
EvaluateOver(ws, sq, category, pg) ==
    \E o \in QueryOutcomes(ws, sq, category, pg, now) :
        /\ whispers' = o.src
        /\ getFilteredWhispers' = o.out
        /\ memoAll' = o.all
        /\ memoFellBack' = o.fellBack
        /\ memoNow' = now
        /\ crashed' = o.threw
\* An identifier no whisper of ws has.
NewId(ws) ==
    IF ws = <<>> THEN 1
    ELSE 1 + (CHOOSE n \in {ws[i].id : i \in 1..Len(ws)} :
                 \A i \in 1..Len(ws) : ws[i].id <= n)
\* The store's addWhisper(text, mood): a new whisper at the end of the
\* collection, posted now by the user, not yet liked.
StoreAddWhisper(ws, newText, mood, u, t) ==
    Append(ws, Whisper(NewId(ws), newText, mood, Num(0), Num(t), Undefined,
                       UserIdOf(u)))
\* The store's likeWhisper(whisperId): the like increment of that whisper.
StoreLikeWhisper(ws, whisperId) ==
    [i \in 1..Len(ws) |->
        IF ws[i].id = whisperId
        THEN [ws[i] EXCEPT !.likes = Num(OrZero(@) + 1)]
        ELSE ws[i]]
\* What addWhisper is given here.
AddTexts == {<<"c">>}
AddMoods == {Love}
\* The category buttons pressed here: the default and one other.
StoreCategoryIds == {"popular", "recent"}
\* addWhisper(text, mood) runs in the store and the Explore screen renders.
AddWhisper(newText, mood) ==
    /\ ~crashed
    /\ storeAdds < MaxStoreAdds
    /\ storeAdds' = storeAdds + 1
    /\ EvaluateOver(StoreAddWhisper(whispers, newText, mood, user, now),
                    searchQuery, selectedCategory, page)
    /\ UNCHANGED <<searchQuery, selectedCategory, loading, page, loadMoreTimers,
                   loadMoreSinceChange, now, settingsVars, profileVars,
                   homeBusyVars, clearDataVars, homeFeedVars, storeLikes, addVars>>
\* The whisper a like button is pressed on: the last of the Explore list.
LikeTargets == {getFilteredWhispers[i].id :
                   i \in {Len(getFilteredWhispers)} \ {0}}
\* ExploreScreen handleLikeWhisper(whisperId): likeWhisper(whisperId); the
\* store's collection changes and the screen renders.
HandleLikeWhisper(whisperId) ==
    /\ ~crashed
    /\ storeLikes < MaxStoreLikes
    /\ storeLikes' = storeLikes + 1
    /\ EvaluateOver(StoreLikeWhisper(whispers, whisperId),
                    searchQuery, selectedCategory, page)
    /\ UNCHANGED <<searchQuery, selectedCategory, loading, page, loadMoreTimers,
                   loadMoreSinceChange, now, settingsVars, profileVars,
                   homeBusyVars, clearDataVars, homeFeedVars, storeAdds, addVars>>
\* A 'Clear Data' that empties the collection.
ConfirmClearDataEmptiesStore ==
    /\ clearDataRuns < MaxClearRuns
    /\ settingsLoading' = TRUE
    /\ clearDataRuns' = clearDataRuns + 1
    /\ EvaluateOver(<<>>, searchQuery, selectedCategory, page)
    /\ UNCHANGED <<searchQuery, selectedCategory, loading, page, loadMoreTimers,
                   loadMoreSinceChange, now, settingsVars, profileVars,
                   homeBusyVars, clearDataAlert, homeFeedVars, storeCountVars,
                   addVars>>
\* SettingsScreen handleClearData, 'Clear Data' pressed in its alert, up to
\* the await: setLoading(true).  ('Cancel' changes nothing.)
ConfirmClearData ==
    /\ clearDataRuns < MaxClearRuns
    /\ settingsLoading' = TRUE
    /\ clearDataRuns' = clearDataRuns + 1
    /\ UNCHANGED <<exploreVars, settingsVars, profileVars, homeBusyVars,
                   clearDataAlert, homeFeedVars, storeCountVars, addVars>>
\* The rest of it: the 1000 ms timer fires, the 'Success' alert (the
\* 'Error' alert from the catch), finally setLoading(false).
ClearDataSettles(failed) ==
    /\ clearDataRuns > 0
    /\ clearDataRuns' = clearDataRuns - 1
    /\ clearDataAlert' = IF failed THEN "Error" ELSE "Success"
    /\ settingsLoading' = FALSE
    /\ UNCHANGED <<exploreVars, settingsVars, profileVars, homeBusyVars,
                   homeFeedVars, storeCountVars, addVars>>

\* The record of the pool with that id.
PoolWhisper(id) == CHOOSE w \in WhisperPool : w.id = id
\* What the store holds to begin with: nothing, two whispers (one never
\* liked), or a full page.
StoreCollections ==
    {<<>>, <<PoolWhisper(4), PoolWhisper(1)>>,
     [i \in 1..ITEMS_PER_PAGE |-> FillerWhisper(i)]}
InitStore == InitExploreOver(StoreCollections) /\ InitOffExplore
\* The screens that read or change the collection, the clock held still.
NextStore ==
    \/ \E newText \in AddTexts, mood \in AddMoods : AddWhisper(newText, mood)
    \/ \E whisperId \in LikeTargets : HandleLikeWhisper(whisperId)
    \/ \E text \in SearchInputs : HandleSearch(text)
    \/ \E categoryId \in StoreCategoryIds : HandleCategoryChange(categoryId)
    \/ HandleLoadMore
    \/ LoadMoreTimeout
    \/ ConfirmClearData
    \/ \E failed \in BOOLEAN : ClearDataSettles(failed)
SpecStore == InitStore /\ [][NextStore]_vars

\* ------------------------------------------------------ AddWhisper screen
MAX_CHAR_LIMIT == 400
MaxPosts == 2
\* text.trim(): text without its leading and trailing white space
Trim(s) ==
    LET first == CHOOSE i \in 1..Len(s) :
                     ~IsSpace(s[i]) /\ \A j \in 1..(i - 1) : IsSpace(s[j])
        last == CHOOSE i \in 1..Len(s) :
                    ~IsSpace(s[i]) /\ \A j \in (i + 1)..Len(s) : IsSpace(s[j])
    IN IF \A i \in 1..Len(s) : IsSpace(s[i]) THEN <<>> ELSE SubSeq(s, first, last)
\* An isValidToPost that does not look at isPosting.
IsValidToPostWhilePosting(t, mood, posting) ==
    /\ Len(Trim(t)) >= 10
    /\ Len(t) <= MAX_CHAR_LIMIT
    /\ mood # NoString
\* isValidToPost: text.trim().length >= 10 && text.length <= MAX_CHAR_LIMIT
\* && currentMood && !isPosting
IsValidToPost(t, mood, posting) ==
    /\ Len(Trim(t)) >= 10
    /\ Len(t) <= MAX_CHAR_LIMIT
    /\ mood # NoString
    /\ ~posting
\* The memo's value: its dependencies are all it reads.
isValidToPost == IsValidToPost(draftText, currentMood, isPosting)
\* The messages setValidationError is given.
TooLongError == "Text is too long."
TooShortError == "Whispers should be at least 10 characters long."
ValidationFailedError == "validation.errors[0]"
NoMoodError == "Please select a mood that represents your whisper."
\* n times the character c
Repeat(c, n) == [i \in 1..n |-> c]
\* What is typed (the input takes up to MAX_CHAR_LIMIT + 50 characters):
\* nothing, blanks, three letters, three letters and seven blanks, ten
\* letters, ten letters between blanks, and texts at and over the limit.
DraftTexts ==
    {<<>>, Repeat(" ", 3), <<"a", "b", "c">>,
     <<"a", "b", "c">> \o Repeat(" ", 7),
     Repeat("a", 10),
     <<" ">> \o Repeat("a", 10) \o <<" ">>,
     Repeat("a", MAX_CHAR_LIMIT),
     Repeat("a", MAX_CHAR_LIMIT + 1)}
\* The screen is mounted and no alert covers it.
AddScreenInUse == ~navigatedBack /\ addAlert = "none"
\* What no handler of the AddWhisper screen touches, the store aside.
offAdd == <<settingsVars, profileVars, homeBusyVars, clearDataVars,
            homeFeedVars, storeLikes>>

\* handleTextChange(newText)
HandleTextChange(newText) ==
    /\ AddScreenInUse
    /\ draftText' = newText
    /\ validationError' =
          IF Len(newText) > MAX_CHAR_LIMIT THEN TooLongError
          ELSE IF Len(newText) < 10 /\ Len(Trim(newText)) > 0 THEN TooShortError
          ELSE ""
    /\ UNCHANGED <<exploreVars, offAdd, storeAdds, currentMood, isPosting,
                   addAlert, addCalls, postedText, postedMood, lastValid,
                   lastBad, handlePostRuns, navigatedBack>>
\* onMoodSelect={setCurrentMood}
SetCurrentMood(mood) ==
    /\ AddScreenInUse
    /\ currentMood' = mood
    /\ UNCHANGED <<exploreVars, offAdd, storeAdds, draftText, isPosting,
                   validationError, addAlert, addCalls, postedText, postedMood,
                   lastValid, lastBad, handlePostRuns, navigatedBack>>
\* A handlePost without the content check.
HandlePostUnmoderated(valid, bad) ==
    /\ AddScreenInUse
    /\ isValidToPost
    /\ handlePostRuns < MaxPosts
    /\ handlePostRuns' = handlePostRuns + 1
    /\ lastValid' = valid
    /\ lastBad' = (valid /\ bad)
    /\ IF ~valid
       THEN /\ validationError' = ValidationFailedError
            /\ UNCHANGED <<isPosting, addAlert, addCalls, postedText, postedMood>>
       ELSE IF currentMood = NoString
       THEN /\ validationError' = NoMoodError
            /\ UNCHANGED <<isPosting, addAlert, addCalls, postedText, postedMood>>
       ELSE /\ validationError' = ""
            /\ isPosting' = TRUE
            /\ addCalls' = addCalls + 1
            /\ postedText' = Trim(draftText)
            /\ postedMood' = currentMood
            /\ UNCHANGED addAlert
    /\ UNCHANGED <<exploreVars, offAdd, storeAdds, draftText, currentMood,
                   navigatedBack>>
\* handlePost, from the header's Post button (disabled unless isValidToPost)
\* or the floating one (rendered only when isValidToPost), up to the await.
\* validateWhisperText(text).isValid and containsBadWords(text) are what the
\* helpers answer.
HandlePost(valid, bad) ==
    /\ AddScreenInUse
    /\ isValidToPost
    /\ handlePostRuns < MaxPosts
    /\ handlePostRuns' = handlePostRuns + 1
    /\ lastValid' = valid
    /\ lastBad' = (valid /\ bad)
    /\ IF ~valid
       THEN /\ validationError' = ValidationFailedError
            /\ UNCHANGED <<isPosting, addAlert, addCalls, postedText, postedMood>>
       ELSE IF bad
       THEN /\ validationError' = ""
            /\ addAlert' = "Content Guidelines"
            /\ UNCHANGED <<isPosting, addCalls, postedText, postedMood>>
       ELSE IF currentMood = NoString
       THEN /\ validationError' = NoMoodError
            /\ UNCHANGED <<isPosting, addAlert, addCalls, postedText, postedMood>>
       ELSE /\ validationError' = ""
            /\ isPosting' = TRUE
            /\ addCalls' = addCalls + 1
            /\ postedText' = Trim(draftText)
            /\ postedMood' = currentMood
            /\ UNCHANGED addAlert
    /\ UNCHANGED <<exploreVars, offAdd, storeAdds, draftText, currentMood,
                   navigatedBack>>
\* What await addWhisper(...) comes to: a truthy value, a falsy one, or a
\* rejection.
AddOutcomes == {"success", "falsy", "throws"}
\* A catch branch that leaves isPosting to the alert's Retry button and
\* clears the draft.
AddWhisperSettlesClearingDraft(outcome) ==
    /\ addCalls > 0
    /\ addCalls' = addCalls - 1
    /\ IF outcome = "success"
       THEN /\ storeAdds' = storeAdds + 1
            /\ EvaluateOver(StoreAddWhisper(whispers, postedText, postedMood, user, now),
                            searchQuery, selectedCategory, page)
            /\ addAlert' = "Whisper Shared!"
            /\ UNCHANGED <<isPosting, draftText>>
       ELSE /\ addAlert' = "Something Went Wrong"
            /\ draftText' = IF navigatedBack THEN draftText ELSE <<>>
            /\ UNCHANGED <<isPosting, storeAdds, whispers, getFilteredWhispers,
                           memoAll, memoFellBack, memoNow, crashed>>
    /\ UNCHANGED <<searchQuery, selectedCategory, loading, page, loadMoreTimers,
                   loadMoreSinceChange, now, offAdd, currentMood,
                   validationError, postedText, postedMood, lastValid, lastBad,
                   handlePostRuns, navigatedBack>>
\* The rest of handlePost: addWhisper settles.  A truthy value: the store
\* has added the whisper and the 'Whisper Shared!' alert is shown.  A falsy
\* value throws into the catch, as a rejection does: the 'Something Went
\* Wrong' alert and setIsPosting(false).  A screen that has been left keeps
\* no state to set.
AddWhisperSettles(outcome) ==
    /\ addCalls > 0
    /\ addCalls' = addCalls - 1
    /\ IF outcome = "success"
       THEN /\ storeAdds' = storeAdds + 1
            /\ EvaluateOver(StoreAddWhisper(whispers, postedText, postedMood, user, now),
                            searchQuery, selectedCategory, page)
            /\ addAlert' = "Whisper Shared!"
            /\ UNCHANGED isPosting
       ELSE /\ addAlert' = "Something Went Wrong"
            /\ isPosting' = IF navigatedBack THEN isPosting ELSE FALSE
            /\ UNCHANGED <<storeAdds, whispers, getFilteredWhispers, memoAll,
                           memoFellBack, memoNow, crashed>>
    /\ UNCHANGED <<searchQuery, selectedCategory, loading, page, loadMoreTimers,
                   loadMoreSinceChange, now, offAdd, draftText, currentMood,
                   validationError, postedText, postedMood, lastValid, lastBad,
                   handlePostRuns, navigatedBack>>
\* 'Share Another' of the 'Whisper Shared!' alert: setText('');
\* setCurrentMood(selectedMood); setIsPosting(false)
PressShareAnother ==
    /\ addAlert = "Whisper Shared!"
    /\ addAlert' = "none"
    /\ IF navigatedBack
       THEN UNCHANGED <<draftText, currentMood, isPosting>>
       ELSE /\ draftText' = <<>>
            /\ currentMood' = selectedMood
            /\ isPosting' = FALSE
    /\ UNCHANGED <<exploreVars, offAdd, storeAdds, validationError, addCalls,
                   postedText, postedMood, lastValid, lastBad, handlePostRuns,
                   navigatedBack>>
\* 'Done' of the 'Whisper Shared!' alert: navigation.goBack()
PressDone ==
    /\ addAlert = "Whisper Shared!"
    /\ addAlert' = "none"
    /\ navigatedBack' = TRUE
    /\ UNCHANGED <<exploreVars, offAdd, storeAdds, draftText, currentMood,
                   isPosting, validationError, addCalls, postedText, postedMood,
                   lastValid, lastBad, handlePostRuns>>
\* 'Retry' of the 'Something Went Wrong' alert: setIsPosting(false)
PressRetry ==
    /\ addAlert = "Something Went Wrong"
    /\ addAlert' = "none"
    /\ isPosting' = IF navigatedBack THEN isPosting ELSE FALSE
    /\ UNCHANGED <<exploreVars, offAdd, storeAdds, draftText, currentMood,
                   validationError, addCalls, postedText, postedMood,
                   lastValid, lastBad, handlePostRuns, navigatedBack>>
\* 'Edit Whisper' of the 'Content Guidelines' alert: it closes.
PressEditWhisper ==
    /\ addAlert = "Content Guidelines"
    /\ addAlert' = "none"
    /\ UNCHANGED <<exploreVars, offAdd, storeAdds, draftText, currentMood,
                   isPosting, validationError, addCalls, postedText, postedMood,
                   lastValid, lastBad, handlePostRuns, navigatedBack>>
\* handleClose: navigation.goBack(), at once for a blank draft, after
\* 'Discard' otherwise ('Keep Writing' changes nothing).
HandleClose ==
    /\ AddScreenInUse
    /\ navigatedBack' = TRUE
    /\ UNCHANGED <<exploreVars, offAdd, storeAdds, draftText, currentMood,
                   isPosting, validationError, addAlert, addCalls, postedText,
                   postedMood, lastValid, lastBad, handlePostRuns>>

\* The AddWhisper screen opened over an empty store, with or without a mood
\* selected on the Home screen.
InitAddWhisper ==
    /\ InitExploreOver({<<>>})
    /\ user = UserWith(UserOne)
    /\ \E mood \in {NoString, Calm} : InitScreensWithMood(mood)
NextAddWhisper ==
    \/ \E newText \in DraftTexts : HandleTextChange(newText)
    \/ \E mood \in AddMoods : SetCurrentMood(mood)
    \/ \E valid, bad \in BOOLEAN : HandlePost(valid, bad)
    \/ \E outcome \in AddOutcomes : AddWhisperSettles(outcome)
    \/ PressShareAnother
    \/ PressDone
    \/ PressRetry
    \/ PressEditWhisper
    \/ HandleClose
SpecAddWhisper == InitAddWhisper /\ [][NextAddWhisper]_vars

\* --------------------------------------------------------- the Home feed
\* The list the HomeScreen shows: filteredWhispers, and in the optimized
\* variant its first 20 (the slice is inside the memo).
HomeFeed == filteredWhispers
HomeFeedOptimized == Slice(filteredWhispers, 0, 20)
\* The moods the Home screen's selector passes to setSelectedMood.
HomeMoods == {NoString, Calm, Love}
\* onMoodSelect={setSelectedMood}: the store's selectedMood changes, a
\* dependency of the memo, which is evaluated again.
SetSelectedMood(mood) ==
    /\ selectedMood' = mood
    /\ filteredWhispers' =
          IF mood = selectedMood THEN filteredWhispers
          ELSE StoreGetFilteredWhispers(whispers, mood)
    /\ UNCHANGED <<exploreVars, settingsVars, profileVars, homeBusyVars,
                   clearDataVars, location, storeCountVars, addVars>>
\* The whisper a like button of the Home list is pressed on: its first.
HomeLikeTargets == {HomeFeed[i].id : i \in {1} \cap DOMAIN HomeFeed}
\* HomeScreen handleLikeWhisper(whisperId): likeWhisper(whisperId).  The
\* store's collection changes; the memo's dependencies (selectedMood,
\* location) do not, so filteredWhispers keeps its value.
HomeHandleLikeWhisper(whisperId) == HandleLikeWhisper(whisperId)

\* The Home screen over the store, with whispers added and liked.
NextHomeFeed ==
    \/ \E mood \in HomeMoods : SetSelectedMood(mood)
    \/ \E whisperId \in HomeLikeTargets : HomeHandleLikeWhisper(whisperId)
    \/ \E newText \in AddTexts, mood \in AddMoods : AddWhisper(newText, mood)
    \/ HandleLocationPress
    \/ \E failed, moved \in BOOLEAN : LocationRequestSettles(failed, moved)
SpecHomeFeed == InitStore /\ [][NextHomeFeed]_vars

\* ----------------------------------------------------------------- claims
Ids(arr) == [i \in 1..Len(arr) |-> arr[i].id]
IsPrefixOf(a, b) == Len(a) <= Len(b) /\ SubSeq(b, 1, Len(a)) = a
LikesDescending(arr) ==
    \A i \in 1..(Len(arr) - 1) : OrZero(arr[i].likes) >= OrZero(arr[i + 1].likes)

\* C1: in category 'popular' every adjacent pair of the result has
\* likes[i] >= likes[i+1], a missing likes counting as 0; the collection of
\* ids 1, 2, 3 with likes 5, 9, 2 comes out as [2, 1, 3].
C1_PopularLikesDescending ==
    (selectedCategory = "popular" /\ ~crashed) =>
        /\ LikesDescending(getFilteredWhispers)
        /\ (Ids(whispers) = <<1, 2, 3>> /\ searchQuery = <<>>)
              => Ids(getFilteredWhispers) = <<2, 1, 3>>
\* The documented example, and a result in which a record without likes
\* follows records that have some.
C1_Witness ==
    /\ selectedCategory = "popular" /\ ~crashed
    /\ \/ Ids(whispers) = <<1, 2, 3>> /\ Ids(getFilteredWhispers) = <<2, 1, 3>>
       \/ Ids(whispers) = <<4, 1, 2>> /\ Ids(getFilteredWhispers) = <<2, 1, 4>>

\* The result is the first min(n, page * ITEMS_PER_PAGE) items of the
\* filtered and sorted list.
ResultIsFirstPages ==
    ~crashed =>
        getFilteredWhispers =
            SubSeq(memoAll, 1, Min(Len(memoAll), page * ITEMS_PER_PAGE))
\* A later page's result extends the earlier one, and is the same result
\* once the earlier page already held every item.
LaterPageExtends ==
    /\ IsPrefixOf(getFilteredWhispers, getFilteredWhispers')
    /\ page * ITEMS_PER_PAGE >= Len(memoAll)
          => getFilteredWhispers' = getFilteredWhispers
SameDataAndParams ==
    /\ whispers' = whispers
    /\ searchQuery' = searchQuery
    /\ selectedCategory' = selectedCategory
    /\ ~crashed /\ ~crashed'
\* C2 as stated: the result is the first min(n, page * 10) items of the
\* filtered-and-sorted list, and for unchanged data, search and category a
\* later page's result starts with the earlier page's result and equals it
\* once page * 10 >= n.
C2_LaterPageExtendsWheneverParamsUnchanged ==
    /\ []ResultIsFirstPages
    /\ [][(SameDataAndParams /\ page' > page) => LaterPageExtends]_vars
\* C2, amended: the same, for unchanged data, search, category and clock
\* reading (the trending and recent rules read Date.now()).
C2_LaterPageExtendsAtSameClock ==
    /\ []ResultIsFirstPages
    /\ [][(SameDataAndParams /\ memoNow' = memoNow /\ page' > page)
            => LaterPageExtends]_vars
\* Page 2 of a list longer than one page, evaluated at the clock reading of page 1.
C2_Witness ==
    /\ page = 2 /\ ~crashed /\ memoNow = T0
    /\ Len(getFilteredWhispers) > ITEMS_PER_PAGE

\* C3: after handleSearch or handleCategoryChange the page is 1 and stays 1
\* until handleLoadMore next starts a page advance, whatever load-more timer
\* was pending when the search string or category changed.
C3_PageStaysOneUntilNextLoadMore ==
    ~loadMoreSinceChange => page = 1

\* C4: a query never mutates its input: no step changes the whisper
\* collection, neither its order nor any record in it.
C4_QueryNeverMutatesInput ==
    [][whispers' = whispers]_vars
\* After a category change, a query with no search string sorted every
\* record in place (popular and recent sort the array `filtered` refers to)
\* into another order.
C4_Witness ==
    /\ ~crashed /\ TrimIsEmpty(searchQuery)
    /\ selectedCategory = "recent"
    /\ Len(getFilteredWhispers) = Len(whispers)
    /\ getFilteredWhispers # whispers

\* The search-filtered input of the current query.
SearchFiltered == SearchStage(whispers, searchQuery).cur
Occurrences(arr, x) == Cardinality({i \in 1..Len(arr) : arr[i] = x})
\* C5: every returned item is an item of the search-filtered input, no item
\* is returned more often than the input holds it, and an empty collection
\* gives an empty result.
C5_ResultDrawnFromSearchFilteredInput ==
    ~crashed =>
        /\ \A i \in 1..Len(getFilteredWhispers) :
              LET w == getFilteredWhispers[i] IN
              /\ w \in Range(whispers)
              /\ ~TrimIsEmpty(searchQuery)
                    => SearchMatches(w, ToLowerCase(searchQuery))
              /\ Occurrences(getFilteredWhispers, w) <= Occurrences(whispers, w)
        /\ whispers = <<>> => getFilteredWhispers = <<>>
\* A search that keeps some records and drops others, under a category rule
\* that reorders what is kept.
C5_Witness ==
    /\ ~crashed /\ ~TrimIsEmpty(searchQuery)
    /\ Len(getFilteredWhispers) >= 2
    /\ Len(getFilteredWhispers) < Len(whispers)
    /\ getFilteredWhispers # SearchFiltered

\* C6: the query never raises an error to its caller, whatever optional
\* fields (likes, timestamp, distance, mood) the records lack.
C6_QueryNeverThrows ==
    ~crashed

\* Applying the selected category's rule to the search-filtered input raises
\* an error: the trending filter reads every timestamp, a sort of two or more
\* records compares every one of them.
RuleRaises ==
    LET f == SearchFiltered
        bad == \E i \in 1..Len(f) : DateThrows(f[i])
    IN \/ selectedCategory = "trending" /\ bad
       \/ selectedCategory = "recent" /\ bad /\ Len(f) >= 2
IsPermutationOf(a, b) ==
    /\ Len(a) = Len(b)
    /\ \A x \in Range(a) \cup Range(b) : Occurrences(a, x) = Occurrences(b, x)
\* C7: when applying the category rule raises an error, the error is not
\* propagated and the result is the search-filtered collection sorted by
\* likes descending, then paginated.
C7_ErrorFallsBackToPopular ==
    (~SearchStageThrows(whispers, searchQuery) /\ RuleRaises) =>
        /\ ~crashed
        /\ memoFellBack
        /\ IsPermutationOf(memoAll, SearchFiltered)
        /\ LikesDescending(memoAll)
        /\ getFilteredWhispers =
              SubSeq(memoAll, 1, Min(Len(memoAll), page * ITEMS_PER_PAGE))
\* The trending rule raised on a timestamp, and the fallback reordered the
\* search-filtered records by likes, keeping one older than 24 hours.
C7_Witness ==
    /\ ~crashed /\ RuleRaises /\ memoFellBack
    /\ selectedCategory = "trending"
    /\ Len(getFilteredWhispers) >= 2
    /\ getFilteredWhispers # SearchFiltered

IsMalformedTimestamp(w) == w.timestamp = BadDateString
\* A record that is at least as new as the clock reading t, or has no usable
\* timestamp of its own.
NotOlderThan(w, t) == w.timestamp.k # "number" \/ w.timestamp.v >= t
\* C8: a whisper whose timestamp is present but malformed is treated like one
\* created now: the trending 24-hour filter keeps it, and in 'recent' nothing
\* older than now is ordered before it.
C8_MalformedTimestampCountsAsNow ==
    (~crashed /\ ~memoFellBack) =>
        /\ selectedCategory = "trending" =>
              \A w \in Range(SearchFiltered) :
                  IsMalformedTimestamp(w) => w \in Range(memoAll)
        /\ selectedCategory = "recent" =>
              \A i, j \in 1..Len(memoAll) :
                  (i < j /\ IsMalformedTimestamp(memoAll[j]))
                      => NotOlderThan(memoAll[i], memoNow)

\* The record's timestamp is a time or is missing, so that it has an age.
HasAge(w) == w.timestamp.k \in {"number", "undefined"}
\* now - timestamp <= 24 hours, a missing timestamp counting as age 0
AgeWithinDay(w, t) == AgeMs(w, t) <= TRENDING_MAX_HOURS * MS_PER_HOUR
\* likes[a] / max(1, ageHours[a]) >= likes[b] / max(1, ageHours[b])
VelocityAtLeast(a, b, t) ==
    OrZero(a.likes) * Max(MS_PER_HOUR, AgeMs(b, t))
        >= OrZero(b.likes) * Max(MS_PER_HOUR, AgeMs(a, t))
\* Records whose timestamp is no time have no age and are not judged.
TrendingOrdered(arr, t) ==
    /\ \A i \in 1..Len(arr) : HasAge(arr[i]) => AgeWithinDay(arr[i], t)
    /\ \A i \in 1..(Len(arr) - 1) :
          (HasAge(arr[i]) /\ HasAge(arr[i + 1]))
              => VelocityAtLeast(arr[i], arr[i + 1], t)
\* C9 as stated: in 'trending', at the clock reading of the query, every
\* returned item is at most 24 hours old and the result is ordered by
\* likes / max(1, ageHours) descending.
C9_TrendingAlwaysWithinDayAndOrdered ==
    (selectedCategory = "trending" /\ ~crashed) =>
        TrendingOrdered(getFilteredWhispers, memoNow)
\* C9, amended: the same, unless applying the trending rule raised an error
\* and the popular fallback produced the result.
C9_TrendingWithinDayAndOrderedUnlessFallback ==
    (selectedCategory = "trending" /\ ~crashed /\ ~memoFellBack) =>
        TrendingOrdered(getFilteredWhispers, memoNow)
\* A trending result of two or more records, one of them without a
\* timestamp, from a collection holding a record older than 24 hours.
C9_Witness ==
    /\ selectedCategory = "trending" /\ ~crashed /\ ~memoFellBack
    /\ Len(getFilteredWhispers) >= 2
    /\ \E i \in 1..Len(getFilteredWhispers) :
          getFilteredWhispers[i].timestamp = Undefined
    /\ \E w \in Range(SearchFiltered) :
          /\ HasAge(w) /\ ~AgeWithinDay(w, memoNow)
          /\ w \notin Range(getFilteredWhispers)

\* likes[a] / ageHours[a] >= likes[b] / ageHours[b], both ages positive
RatioAtLeast(a, b, t) ==
    OrZero(a.likes) * AgeMs(b, t) >= OrZero(b.likes) * AgeMs(a, t)
\* C10 as stated: in 'trending', every adjacent pair of returned items with
\* positive age has likes[i] / ageHours[i] >= likes[i+1] / ageHours[i+1],
\* items younger than one hour included.
C10_TrendingOrderedByLikesPerHour ==
    (selectedCategory = "trending" /\ ~crashed /\ ~memoFellBack) =>
        \A i \in 1..(Len(getFilteredWhispers) - 1) :
            LET a == getFilteredWhispers[i]
                b == getFilteredWhispers[i + 1]
            IN (AgeMs(a, memoNow) > 0 /\ AgeMs(b, memoNow) > 0)
                  => RatioAtLeast(a, b, memoNow)
\* C10, amended: the same for adjacent items that are both at least one hour
\* old, when no error fallback produced the result.
C10_TrendingOrderedByLikesPerHourFromOneHour ==
    (selectedCategory = "trending" /\ ~crashed /\ ~memoFellBack) =>
        \A i \in 1..(Len(getFilteredWhispers) - 1) :
            LET a == getFilteredWhispers[i]
                b == getFilteredWhispers[i + 1]
            IN (AgeMs(a, memoNow) >= MS_PER_HOUR /\ AgeMs(b, memoNow) >= MS_PER_HOUR)
                  => RatioAtLeast(a, b, memoNow)
\* Two adjacent trending items, both at least an hour old, the first with
\* strictly more likes per hour and the second listed first in the input.
C10_Witness ==
    /\ selectedCategory = "trending" /\ ~crashed /\ ~memoFellBack
    /\ \E i \in 1..(Len(getFilteredWhispers) - 1) :
          LET a == getFilteredWhispers[i]
              b == getFilteredWhispers[i + 1]
          IN /\ AgeMs(a, memoNow) >= MS_PER_HOUR
             /\ AgeMs(b, memoNow) >= MS_PER_HOUR
             /\ ~RatioAtLeast(b, a, memoNow)
             /\ \E m, n \in 1..Len(whispers) :
                   m < n /\ whispers[m] = b /\ whispers[n] = a

\* The distance the nearby rule reads off a record, a missing one being 0.
DistanceOrZero(w) == IF w.distance.k = "number" THEN w.distance.v ELSE 0
DistanceAscendingWithin(arr, limit) ==
    /\ \A i \in 1..Len(arr) : DistanceOrZero(arr[i]) <= limit
    /\ \A i \in 1..(Len(arr) - 1) :
          DistanceOrZero(arr[i]) <= DistanceOrZero(arr[i + 1])
\* C11: in category 'nearby' every returned item has distance <= 1000 and
\* adjacent items have distance[i] <= distance[i+1], whichever radius is
\* chosen in Settings.
C11_NearbyWithinThousandAscending ==
    (selectedCategory = "nearby" /\ ~crashed) =>
        DistanceAscendingWithin(getFilteredWhispers, 1000)
\* With the smallest radius chosen in Settings, a nearby result that holds a
\* record 1000 metres away and leaves out one farther away, in an order
\* other than the input's.
C11_Witness ==
    /\ selectedCategory = "nearby" /\ ~crashed
    /\ locationRadius = 500
    /\ \E i \in 1..Len(getFilteredWhispers) :
          DistanceOrZero(getFilteredWhispers[i]) = 1000
    /\ \E w \in Range(SearchFiltered) : DistanceOrZero(w) > 1000
    /\ \E i \in 1..Len(getFilteredWhispers) :
          getFilteredWhispers[i] # SearchFiltered[i]

\* C12: in 'nearby' a whisper without a distance is kept by the filter and
\* stands before every whisper with a positive distance.
C12_NearbyMissingDistanceIsZero ==
    (selectedCategory = "nearby" /\ ~crashed) =>
        /\ \A w \in Range(SearchFiltered) :
              w.distance = Undefined => w \in Range(memoAll)
        /\ \A i, j \in 1..Len(memoAll) :
              (memoAll[i].distance = Undefined /\ DistanceOrZero(memoAll[j]) > 0)
                  => i < j
\* A nearby result led by a record without a distance that the input lists
\* after a record with a positive distance.
C12_Witness ==
    /\ selectedCategory = "nearby" /\ ~crashed
    /\ Len(memoAll) >= 2
    /\ memoAll[1].distance = Undefined
    /\ DistanceOrZero(memoAll[2]) > 0
    /\ \E m, n \in 1..Len(whispers) :
          m < n /\ whispers[m] = memoAll[2] /\ whispers[n] = memoAll[1]

\* Newest first among the records that have an age, a missing timestamp
\* counting as the clock reading t.
TimestampDescending(arr, t) ==
    \A i, j \in 1..Len(arr) :
        (i < j /\ HasAge(arr[i]) /\ HasAge(arr[j]))
            => AgeMs(arr[i], t) <= AgeMs(arr[j], t)
\* C13: in 'recent' no whisper is filtered out and the result is ordered by
\* timestamp descending, a whisper without a timestamp being ordered as if
\* its timestamp were the current time.  Judged where the recent sort itself,
\* not the error fallback, produced the result.
C13_RecentKeepsAllNewestFirst ==
    (selectedCategory = "recent" /\ ~crashed /\ ~memoFellBack) =>
        /\ IsPermutationOf(memoAll, SearchFiltered)
        /\ TimestampDescending(memoAll, memoNow)

\* The sort key of the category is the same number for a and b.
EqualSortKey(category, a, b, t) ==
    CASE category = "popular" -> OrZero(a.likes) = OrZero(b.likes)
      [] category = "recent" ->
            HasAge(a) /\ HasAge(b) /\ AgeMs(a, t) = AgeMs(b, t)
      [] category = "nearby" -> DistanceOrZero(a) = DistanceOrZero(b)
      [] category = "trending" ->
            /\ HasAge(a) /\ HasAge(b)
            /\ OrZero(a.likes) * Max(MS_PER_HOUR, AgeMs(b, t))
                  = OrZero(b.likes) * Max(MS_PER_HOUR, AgeMs(a, t))
      [] OTHER -> FALSE
IndexIn(ws, w) == CHOOSE k \in 1..Len(ws) : ws[k] = w
\* Items of arr with equal sort key stand in the order the input has them.
TiesKeepInputOrder(arr, category, t) ==
    \A i, j \in 1..Len(arr) :
        (i < j /\ EqualSortKey(category, arr[i], arr[j], t))
            => IndexIn(whispers, arr[i]) < IndexIn(whispers, arr[j])
ContainsSearchString(w, sq) ==
    \/ Includes(ToLowerCase(w.text), ToLowerCase(sq))
    \/ w.mood.k = "string" /\ Includes(ToLowerCase(w.mood.s), ToLowerCase(sq))
\* C15: when the search string is non-empty after trimming, a whisper is
\* retained exactly when its lower-cased text or lower-cased mood contains
\* the lower-cased search string, white space at either end of the search
\* string included.  Retention is read off the list before pagination: all
\* of it in 'popular' and 'recent', which filter nothing more, and as an
\* upper bound in the other categories.
C15_SearchRetainsExactlyTheMatches ==
    (~crashed /\ \E i \in 1..Len(searchQuery) : searchQuery[i] # " ") =>
        LET matching == {w \in Range(whispers) : ContainsSearchString(w, searchQuery)}
        IN /\ Range(memoAll) \subseteq matching
           /\ selectedCategory \in {"popular", "recent"} => Range(memoAll) = matching
\* A search string with trailing white space that keeps one whisper and
\* drops another whose text contains the trimmed string.
C15_Witness ==
    /\ ~crashed
    /\ searchQuery = <<"B", " ">>
    /\ selectedCategory \in {"popular", "recent"}
    /\ memoAll # <<>>
    /\ \E w \in Range(whispers) :
          w \notin Range(memoAll) /\ Includes(ToLowerCase(w.text), <<"b">>)

\* The string is empty or made of blanks only.
IsBlank(s) == \A i \in 1..Len(s) : s[i] = " "
\* What the query can give for the state's collection, category, page and
\* clock reading when the search string is empty.
UnsearchedResults ==
    {<<o.threw, o.out>> :
        o \in QueryOutcomes(whispers, <<>>, selectedCategory, page, memoNow)}
\* C16: for every collection, category and page, a search string that is
\* empty or only white space gives the result of a query without a search
\* filter: nothing throws, and in 'popular' and 'recent' every whisper of the
\* collection is in the list before pagination.
C16_BlankSearchIsNoSearch ==
    IsBlank(searchQuery) =>
        /\ <<crashed, getFilteredWhispers>> \in UnsearchedResults
        /\ ~crashed
        /\ selectedCategory \in {"popular", "recent"}
              => IsPermutationOf(memoAll, whispers)
\* A white-space search over a collection of two or more whispers, one of
\* them without a blank in its text, in a category other than the initial
\* one.
C16_Witness ==
    /\ searchQuery = <<" ">>
    /\ selectedCategory = "recent"
    /\ Len(getFilteredWhispers) >= 2
    /\ \E w \in Range(getFilteredWhispers) : ~Includes(w.text, <<" ">>)

\* The whispers the search keeps, in input order: all of them for a blank
\* search string.
KeptBySearch ==
    LET keep(w) == IsBlank(searchQuery) \/ ContainsSearchString(w, searchQuery)
    IN SelectSeq(whispers, keep)
\* The search filter meets a whisper it cannot test: no mood, and a text
\* that does not contain the search string.
SearchMeetsMissingMood ==
    /\ ~IsBlank(searchQuery)
    /\ \E w \in Range(whispers) :
          w.mood.k = "undefined" /\ ~ContainsSearchString(w, searchQuery)
\* C17: for a category identifier outside popular, recent, nearby and
\* trending no category filter is applied and the search-filtered items are
\* returned in input order, paginated; the category adds no error (the catch
\* branch does not run, and nothing is thrown unless the search filter
\* itself throws).
C17_OtherCategoryPassesThrough ==
    selectedCategory \notin {"popular", "recent", "nearby", "trending"} =>
        /\ ~memoFellBack
        /\ crashed <=> SearchMeetsMissingMood
        /\ ~crashed =>
              /\ memoAll = KeptBySearch
              /\ getFilteredWhispers
                    = SubSeq(KeptBySearch, 1, Min(Len(KeptBySearch), page * 10))
\* An unrecognized category with a search that drops something, the result
\* of two or more whispers not in likes order.
C17_Witness ==
    /\ selectedCategory = "favorites" /\ ~crashed
    /\ ~IsBlank(searchQuery)
    /\ Len(getFilteredWhispers) >= 2
    /\ Len(getFilteredWhispers) < Len(whispers)
    /\ ~LikesDescending(getFilteredWhispers)

\* C18: handleLoadMore starts a page advance (its timer) only when the
\* rendered result is exactly page * 10 long; an end-reached event that
\* finds the result shorter than page * 10 changes neither page nor the
\* pending timers nor the loading flag, so no page change comes of it.
C18_LoadMoreOnlyFromFullPage ==
    [][ /\ loadMoreTimers' > loadMoreTimers
            => (~loading /\ Len(getFilteredWhispers) = page * 10)
        /\ (HandleLoadMore /\ Len(getFilteredWhispers) < page * 10)
            => UNCHANGED <<page, loadMoreTimers, loading>> ]_vars
\* After a page advance, a result shorter than page * 10 with no timer
\* pending: the end of the list has been reached.
C18_Witness ==
    /\ ~crashed
    /\ page = 2
    /\ Len(getFilteredWhispers) > 10
    /\ Len(getFilteredWhispers) < page * 10
    /\ ~loading /\ loadMoreTimers = 0

\* The entries of stats for the mood with the given id.
EntriesFor(stats, id) == {k \in 1..Len(stats) : stats[k].id = id}
\* The number of whispers whose mood equals id.
WhispersWithMood(id) ==
    Cardinality({i \in 1..Len(whispers) :
                    whispers[i].mood.k = "string" /\ whispers[i].mood.s = id})
\* stats holds one entry for each mood of MOODS, with the count of the
\* whispers of that mood and percentage = 100 * count / totalWhispers.
CountsAndPercentages(stats, MOODS) ==
    /\ Len(stats) = Len(MOODS)
    /\ \A m \in 1..Len(MOODS) :
          \E k \in EntriesFor(stats, MOODS[m].id) :
              /\ stats[k].count = WhispersWithMood(MOODS[m].id)
              /\ stats[k].percentage.den # 0
              /\ stats[k].percentage.num * Len(whispers)
                    = 100 * stats[k].count * stats[k].percentage.den
\* The documented example: moods calm, love, calm give calm 2 at 66.7 % and
\* love 1 at 33.3 %.
MoodExample ==
    [i \in 1..Len(whispers) |-> whispers[i].mood] = <<Calm, Love, Calm>> =>
        LET stats == GetMoodStats(whispers, <<[id |-> Calm.s], [id |-> Love.s]>>)
        IN /\ Len(stats) = 2
           /\ stats[1].id = Calm.s /\ stats[1].count = 2
           /\ ToFixed1(stats[1].percentage) = 667
           /\ stats[2].id = Love.s /\ stats[2].count = 1
           /\ ToFixed1(stats[2].percentage) = 333
C20_MoodStatsByCountThenListOrder ==
    \A MOODS \in MoodLists :
        LET stats == GetMoodStats(whispers, MOODS)
            place(id) == CHOOSE m \in 1..Len(MOODS) : MOODS[m].id = id
        IN \A i, j \in 1..Len(stats) :
              i < j =>
                  /\ stats[i].count >= stats[j].count
                  /\ stats[i].count = stats[j].count
                        => place(stats[i].id) < place(stats[j].id)
\* A collection whose statistics put a later mood of the list first and
\* hold two moods with equal count.
C20_Witness ==
    /\ selectedCategory = "nearby"
    /\ \E MOODS \in MoodLists :
          LET stats == GetMoodStats(whispers, MOODS)
          IN /\ Len(stats) = 3
             /\ stats[1].id = MOODS[3].id
             /\ stats[2].count = stats[3].count

\* The userStats memo of the Profile screen in this state.
userStats == UserStats(whispers, user)
\* The whisper carries a userId and it is the id of u.
PostedBy(w, u) == w.userId.k = "string" /\ u.k = "object" /\ w.userId = u.id
\* The likes of the whispers of arr that u posted, a missing likes being 0.
RECURSIVE LikesOfUser(_, _)
LikesOfUser(arr, u) ==
    IF arr = <<>> THEN 0
    ELSE LikesOfUser(Tail(arr), u)
           + (IF PostedBy(Head(arr), u) /\ Head(arr).likes.k = "number"
              THEN Head(arr).likes.v ELSE 0)
\* The mood of the whisper, "unknown" when it has none.
MoodOrUnknown(w) ==
    IF w.mood.k = "string" THEN w.mood.s ELSE <<"u", "n", "k", "n", "o", "w", "n">>
RECURSIVE SumOver(_, _)
SumOver(f, keys) ==
    IF keys = {} THEN 0
    ELSE LET k == CHOOSE x \in keys : TRUE IN f[k] + SumOver(f, keys \ {k})
\* C21: for a user with an id, userWhispers is exactly the whispers whose
\* userId is that id, totalLikes the sum of their likes (a missing likes
\* counting 0), moodStats the count of each of their moods (a missing mood
\* being "unknown"), summing to totalWhispers; an empty subset gives zero
\* totalWhispers, totalLikes and avgLikes and a moodStats without entries.
C21_UserStatsOfTheUsersWhispers ==
    user.k = "object" =>
        LET own(w) == PostedBy(w, user)
            mine == SelectSeq(whispers, own)
        IN /\ userStats.userWhispers = mine
           /\ userStats.totalWhispers = Len(mine)
           /\ userStats.totalLikes = LikesOfUser(whispers, user)
           /\ \A key \in DOMAIN userStats.moodStats :
                 userStats.moodStats[key]
                     = Cardinality({i \in 1..Len(mine) : MoodOrUnknown(mine[i]) = key})
           /\ \A i \in 1..Len(mine) : MoodOrUnknown(mine[i]) \in DOMAIN userStats.moodStats
           /\ SumOver(userStats.moodStats, DOMAIN userStats.moodStats) = Len(mine)
           /\ mine = <<>> =>
                 /\ userStats.totalLikes = 0 /\ userStats.avgLikes = 0
                 /\ DOMAIN userStats.moodStats = {}
\* A user whose whispers are some but not all of the collection, one of
\* them without likes and without a mood, the refresh having run.
C21_Witness ==
    /\ user.k = "object"
    /\ userStats.totalWhispers >= 2
    /\ userStats.totalWhispers < Len(whispers)
    /\ \E i \in 1..Len(userStats.userWhispers) :
          /\ userStats.userWhispers[i].likes = Undefined
          /\ userStats.userWhispers[i].mood = NoString
    /\ userStats.totalLikes > 0
    /\ profileRefreshes > 0

\* C30: without a user (null or undefined) no whisper is counted:
\* totalWhispers and totalLikes are 0 for every collection, also one that
\* holds whispers without a userId.
C30_NoUserCountsNothing ==
    user.k # "object" =>
        userStats.totalWhispers = 0 /\ userStats.totalLikes = 0

\* C22: a busy flag that was set is reset: whenever refreshing of the
\* Profile screen, refreshing of the Home screen or loadingLocation is true,
\* it is false again later, whether the awaited work succeeded or failed.
C22_BusyFlagsAreReset ==
    /\ profileRefreshing ~> ~profileRefreshing
    /\ homeRefreshing ~> ~homeRefreshing
    /\ loadingLocation ~> ~loadingLocation
\* All three handlers have run to their end through the catch branch and
\* left their flags false.
C22_Witness ==
    /\ profileRefreshFailed /\ profileRefreshes = 0 /\ ~profileRefreshing
    /\ homeRefreshFailed /\ homeRefreshes = 0 /\ ~homeRefreshing
    /\ locationFailed /\ locationRequests = 0 /\ ~loadingLocation

\* The identifiers of the whispers of arr.
IdSet(arr) == {arr[i].id : i \in 1..Len(arr)}
\* C23: no operation removes a whisper: a confirmed 'Clear All Data' changes
\* the loading flag and shows an alert and leaves the collection as it is,
\* and over add, like, search, category, load-more and clear-data steps the
\* set of whisper ids never loses a member.
C23_NoWhisperIsRemoved ==
    [][/\ IdSet(whispers) \subseteq IdSet(whispers')
       /\ (clearDataRuns' # clearDataRuns) => whispers' = whispers]_vars
\* A whisper was added, one was liked, a search, a category and a second
\* page were chosen, and 'Clear Data' has run to its 'Success' alert.
C23_Witness ==
    /\ storeAdds > 0 /\ storeLikes > 0
    /\ searchQuery # <<>> /\ selectedCategory # "popular"
    /\ \E i \in 1..Len(whispers) : whispers[i].id = 100 + ITEMS_PER_PAGE + 1
    /\ clearDataAlert = "Success" /\ ~settingsLoading
    /\ whispers # <<>>

\* C24: the load-more cycle: while loading is true a handleLoadMore
\* schedules nothing, so at most one page-advance timer is pending at any
\* time; and the step that ends a cycle (the timer's callback) increments
\* the page by exactly 1 and resets loading to false.
C24_OneLoadMoreCycleAtATime ==
    [][ /\ loading => loadMoreTimers' <= loadMoreTimers
        /\ loadMoreTimers <= 1 /\ loadMoreTimers' <= 1
        /\ loadMoreTimers' > loadMoreTimers => loading'
        /\ loadMoreTimers' < loadMoreTimers => (page' = page + 1 /\ ~loading') ]_vars
\* A second cycle is under way: the first ended on page 2 with a full
\* second page, and handleLoadMore has started the timer again; the list's
\* end is still in view, so handleLoadMore can run once more.
C24_Witness ==
    /\ ~crashed
    /\ page = 2 /\ loading /\ loadMoreTimers = 1
    /\ Len(getFilteredWhispers) = 2 * ITEMS_PER_PAGE

\* C25: handlePost calls addWhisper only when the text validated, held no
\* bad words and a mood is selected, and then with the trimmed text and the
\* current mood; when a check fails it calls nothing and isPosting stays
\* false.
C25_PostOnlyWhatPassedTheChecks ==
    [][ /\ addCalls' > addCalls => handlePostRuns' # handlePostRuns
        /\ handlePostRuns' # handlePostRuns =>
             IF lastValid' /\ ~lastBad' /\ currentMood # NoString
             THEN /\ addCalls' = addCalls + 1
                  /\ postedText' = Trim(draftText)
                  /\ postedMood' = currentMood
             ELSE /\ addCalls' = addCalls
                  /\ ~isPosting /\ ~isPosting' ]_vars
\* One handlePost was stopped by a check; the next passed them all and its
\* call, with the text trimmed, is in flight.
C25_Witness ==
    /\ handlePostRuns = 2 /\ addCalls = 1 /\ isPosting
    /\ lastValid /\ ~lastBad
    /\ postedText = Repeat("a", 10) /\ postedText # draftText
    /\ postedMood = Love

\* C26: at most one addWhisper call is in flight: from the handlePost that
\* set isPosting until isPosting is reset (by the failure branch or by
\* 'Share Another') isValidToPost is false, and a call is started only when
\* none is in flight.
C26_OnePostInFlight ==
    [][ /\ addCalls <= 1 /\ addCalls' <= 1
        /\ addCalls' > addCalls => (addCalls = 0 /\ ~isPosting /\ isPosting')
        /\ addCalls' = 1 => isPosting'
        /\ isPosting' =>
              ~(/\ Len(Trim(draftText')) >= 10 /\ Len(draftText') <= 400
                /\ currentMood' # NoString /\ ~isPosting') ]_vars
\* A call is in flight on a mounted screen whose draft and mood would
\* otherwise allow posting, after an earlier post that succeeded.
C26_Witness ==
    /\ addCalls = 1 /\ isPosting /\ AddScreenInUse
    /\ storeAdds = 1
    /\ Len(Trim(draftText)) >= 10 /\ Len(draftText) <= 400
    /\ currentMood # NoString

\* C27: when addWhisper returns a falsy value or throws, isPosting is reset
\* to false, the draft text and the mood are as they were, nothing
\* navigates, and (the alert closed) the Post button is enabled again for a
\* draft that is valid.
C27_FailedPostKeepsTheDraft ==
    [][ (addCalls' < addCalls /\ storeAdds' = storeAdds /\ ~navigatedBack) =>
            /\ ~isPosting'
            /\ draftText' = draftText /\ currentMood' = currentMood
            /\ ~navigatedBack'
            /\ addAlert' = "Something Went Wrong"
            /\ isValidToPost' = (/\ Len(Trim(draftText)) >= 10
                                 /\ Len(draftText) <= 400
                                 /\ currentMood # NoString) ]_vars
\* A post of a draft at the length limit has just failed on a mounted
\* screen: the alert is up, nothing was added, the draft is still there.
C27_Witness ==
    /\ addAlert = "Something Went Wrong" /\ addCalls = 0 /\ storeAdds = 0
    /\ ~isPosting /\ ~navigatedBack
    /\ draftText = Repeat("a", MAX_CHAR_LIMIT) /\ postedText = draftText
    /\ currentMood = Love

\* C28: after a handleTextChange with a mood selected and no post in
\* flight, a text that is not blank and leaves the Post button disabled
\* comes with a non-empty validationError.
C28_DisabledPostButtonIsExplained ==
    [][ (/\ \E newText \in DraftTexts : HandleTextChange(newText)
         /\ currentMood # NoString /\ ~isPosting
         /\ ~TrimIsEmpty(draftText')
         /\ ~isValidToPost')
            => validationError' # "" ]_vars

\* C29: the feed the HomeScreen shows is always getFilteredWhispers() of
\* the current collection (its first 20 in the optimized variant), also
\* after likeWhisper or addWhisper with mood and location unchanged.
C29_HomeFeedIsCurrent ==
    LET current == StoreGetFilteredWhispers(whispers, selectedMood)
    IN /\ HomeFeed = current
       /\ HomeFeedOptimized = Slice(current, 0, 20)

====
